---- MODULE Spec2Model ----
(***************************************************************************)
(* Model of scripts/screenshot.js: the capture runner that renders         *)
(* docs/index.html in a headless browser and writes docs/aca_map.png.      *)
(*                                                                         *)
(* The runner is one async function.  Code between two awaits runs         *)
(* atomically, so there is one action per settled await (resolve or        *)
(* reject), each carrying the synchronous code that follows it up to the   *)
(* next await.  The page under capture and the clock are the environment.  *)
(* The runtime is Node.js >= 15: a rejected promise nobody handles ends    *)
(* the process with status 1, and process.exit() ends it at once, before   *)
(* any pending finally block.                                              *)
(***************************************************************************)
EXTENDS Integers, Sequences, FiniteSets, TLC

(***************************************************************************)
(* Bounds of the model.                                                    *)
(***************************************************************************)
\* Granularity of the clock while a bounded wait is pending, in ms.
TickMs == 30000
\* Most labelled markers (.iata-tt) the page renders.
MaxLabels == 1
\* Most tile images (.leaflet-tile) the page holds.
MaxTiles == 1

(***************************************************************************)
(* Program constants.                                                      *)
(***************************************************************************)
GotoTimeout == 120000
SelectorTimeout == 60000
ReadyTimeout == 60000
TilesTimeout == 60000
SettleMs == 600
ResizeSettleMs == 100

DefaultW == <<"2", "4", "0", "0">>
DefaultH == <<"1", "6", "0", "0">>
DefaultScale == <<"2">>

(***************************************************************************)
(* Strings are sequences of one-character strings.  A number is an IEEE    *)
(* 754 double: NaN, Infinity(1), Infinity(-1), a zero with its sign, or    *)
(* [sign, exp, bits] standing for sign * 1.b2b3... * 2^exp, where bits is  *)
(* the binary significand from its leading 1 to its last 1 (at most 53     *)
(* bits, fewer for a subnormal).  800 is [1, 9, <<1,1,0,0,1>>].            *)
(***************************************************************************)
NaN == [nan |-> TRUE]
Infinity(sign) == [inf |-> sign]
Zero(sign) == [sign |-> sign, exp |-> 0, bits |-> <<>>]

IsFinite(a) == DOMAIN a = {"sign", "exp", "bits"}

Digits == {"0", "1", "2", "3", "4", "5", "6", "7", "8", "9"}

\* WhiteSpace and LineTerminator: tab, line feed, carriage return, form feed,
\* space, and (written as the characters themselves) vertical tab U+000B,
\* no-break space U+00A0, U+1680 and U+FEFF.  The other space separators
\* (U+2000-U+200A, U+2028, U+2029, U+202F, U+205F, U+3000) cannot occur in a
\* string of this module.
WhiteSpace == {" ", "\t", "\n", "\r", "\f", "", " ", " ", "﻿"}

DigitVal(c) ==
    CASE c = "0" -> 0 [] c = "1" -> 1 [] c = "2" -> 2 [] c = "3" -> 3
      [] c = "4" -> 4 [] c = "5" -> 5 [] c = "6" -> 6 [] c = "7" -> 7
      [] c = "8" -> 8 [] c = "9" -> 9

RECURSIVE Pow5(_)
Pow5(n) == IF n <= 0 THEN 1 ELSE 5 * Pow5(n - 1)

Abs(m) == IF m < 0 THEN -m ELSE m

Least(S) == CHOOSE i \in S : \A j \in S : i <= j
Greatest(S) == CHOOSE i \in S : \A j \in S : i >= j

\* The bits up to the last 1.
StripZeros(bits) ==
    LET ones == {i \in 1..Len(bits) : bits[i] = 1}
    IN  IF ones = {} THEN <<>> ELSE SubSeq(bits, 1, Greatest(ones))

\* The bits plus one unit in the last place; carry is set when the sum needs
\* one more bit (it is then 1 followed by zeros).
Increment(bits) ==
    LET zeros == {i \in 1..Len(bits) : bits[i] = 0}
    IN  IF zeros = {} THEN [carry |-> TRUE, bits |-> <<1>>]
        ELSE [carry |-> FALSE,
              bits |-> Append(SubSeq(bits, 1, Greatest(zeros) - 1), 1)]

\* For n < d: <<a, n * 2^(a - 1)>> for the least a > a0 with
\* n * 2^(a - a0) >= d.  Comparisons are written so that no intermediate
\* value exceeds d.
RECURSIVE ScaleUp(_, _, _)
ScaleUp(n, d, a) ==
    IF n >= d - n THEN <<a + 1, n>> ELSE ScaleUp(2 * n, d, a + 1)

\* For n >= d: <<b, d * 2^b>> for the greatest b >= b0 with
\* d * 2^(b - b0) <= n.
RECURSIVE ScaleDown(_, _, _)
ScaleDown(n, d, b) ==
    IF d > n - d THEN <<b, d>> ELSE ScaleDown(n, 2 * d, b + 1)

\* One step of long division by d: the next bit of x.rem / d is appended to
\* x.bits; nothing is appended once the remainder is 0, the bits left being
\* zeros.
DivStep(x, d) ==
    IF x.rem = 0 THEN x
    ELSE IF x.rem >= d - x.rem
         THEN [bits |-> Append(x.bits, 1), rem |-> x.rem - (d - x.rem)]
         ELSE [bits |-> Append(x.bits, 0), rem |-> 2 * x.rem]

\* k steps of long division, the first half of them and then the rest.
RECURSIVE GenBits(_, _, _)
GenBits(x, d, k) ==
    IF k <= 0 THEN x
    ELSE IF k = 1 THEN DivStep(x, d)
    ELSE LET y == GenBits(x, d, k \div 2)
         IN  IF y.rem = 0 THEN y ELSE GenBits(y, d, k - (k \div 2))

(***************************************************************************)
(* The double nearest to sign * (n / d) * 2^shift for integers n, d > 0,   *)
(* ties to the even significand: 53 bits, fewer below 2^-1022 where the    *)
(* last place is 2^-1074; 2^1024 and above is an infinity.  The quotient   *)
(* is scaled to q / b with b <= q < 2b, so that its leading bit is 1 and   *)
(* rem0 = q - b is what is left of it.                                     *)
(***************************************************************************)
Ratio(sign, n, d, shift) ==
    LET up == ScaleUp(n, d, 0)
        down == ScaleDown(n, d, 0)
        b == IF n >= d THEN down[2] ELSE d
        rem0 == IF n >= d THEN n - b ELSE up[2] - (d - up[2])
        ex2 == (IF n >= d THEN down[1] ELSE -up[1]) + shift
        p == IF ex2 + 1075 < 53 THEN ex2 + 1075 ELSE 53
        g == GenBits([bits |-> <<1>>, rem |-> rem0], b, p - 1)
        roundUp == \/ g.rem > b - g.rem
                   \/ g.rem = b - g.rem /\ g.bits[p] = 1
        inc == Increment(g.bits)
        bits == IF roundUp THEN inc.bits ELSE g.bits
        exp == IF roundUp /\ inc.carry THEN ex2 + 1 ELSE ex2
    IN  IF p < 0 THEN Zero(sign)
        ELSE IF p = 0
             THEN IF rem0 > 0 THEN [sign |-> sign, exp |-> -1074, bits |-> <<1>>]
                  ELSE Zero(sign)
        ELSE IF exp >= 1024 THEN Infinity(sign)
        ELSE [sign |-> sign, exp |-> exp, bits |-> StripZeros(bits)]

\* The integer n as a double.
IntNum(n) ==
    IF n = 0 THEN Zero(1) ELSE Ratio(IF n < 0 THEN -1 ELSE 1, Abs(n), 1, 0)

\* Index of the first character of s at or after p that is not white space
\* (Len(s) + 1 when there is none).
SkipSpace(s, p) ==
    IF p > Len(s) THEN p
    ELSE Least({i \in p..(Len(s) + 1) : i = Len(s) + 1 \/ s[i] \notin WhiteSpace})

\* Number of consecutive decimal digits of s starting at index p.
DigitRun(s, p) ==
    IF p > Len(s) THEN 0
    ELSE Least({i \in p..(Len(s) + 1) : i = Len(s) + 1 \/ s[i] \notin Digits}) - p

\* acc followed by the n digits of s starting at p, as a number.
RECURSIVE AccDigits(_, _, _, _)
AccDigits(acc, s, p, n) ==
    IF n = 0 THEN acc
    ELSE AccDigits(acc * 10 + DigitVal(s[p]), s, p + 1, n - 1)

\* Value of the n digits of s starting at p (0 when n = 0).
DigitsValue(s, p, n) == AccDigits(0, s, p, n)

(***************************************************************************)
(* The double nearest to sign * 0.d1d2...dn * 10^(n + e10) for the digit   *)
(* string ds = d1...dn, that is, the integer ds times 10^e10.  Leading and *)
(* trailing zeros are set aside first; a value of 10^309 or more is an     *)
(* infinity and one below 10^-324 a zero whatever its digits.              *)
(***************************************************************************)
DecimalToDouble(sign, ds, e10) ==
    LET nz == {i \in 1..Len(ds) : ds[i] # "0"}
        first == Least(nz)
        last == Greatest(nz)
        sci == (Len(ds) - first) + e10
        e == e10 + (Len(ds) - last)
        m == DigitsValue(ds, first, last - first + 1)
    IN  IF nz = {} THEN Zero(sign)
        ELSE IF sci >= 309 THEN Infinity(sign)
        ELSE IF sci <= -325 THEN Zero(sign)
        ELSE IF e >= 0 THEN Ratio(sign, m * Pow5(e), 1, e)
        ELSE Ratio(sign, m, Pow5(-e), e)

HasSign(s, p) == p <= Len(s) /\ s[p] \in {"+", "-"}
SignAt(s, p) == IF p <= Len(s) /\ s[p] = "-" THEN -1 ELSE 1

InfinityWord == <<"I", "n", "f", "i", "n", "i", "t", "y">>
InfinityAt(s, p) ==
    /\ p + Len(InfinityWord) - 1 <= Len(s)
    /\ \A i \in 1..Len(InfinityWord) : s[p + i - 1] = InfinityWord[i]

(***************************************************************************)
(* parseInt(s, 10): leading white space and one sign are skipped, then the *)
(* longest run of decimal digits is read; anything after it is ignored.    *)
(* No digit at all gives NaN.  The result is the double nearest to the     *)
(* integer read.                                                           *)
(***************************************************************************)
ParseInt(s) ==
    LET p0 == SkipSpace(s, 1)
        p1 == IF HasSign(s, p0) THEN p0 + 1 ELSE p0
        n  == DigitRun(s, p1)
    IN  IF n = 0 THEN NaN
        ELSE DecimalToDouble(SignAt(s, p0), SubSeq(s, p1, p1 + n - 1), 0)

(***************************************************************************)
(* parseFloat(s): leading white space is skipped, then the longest prefix  *)
(* that is a decimal literal is read: a sign, then either the word         *)
(* Infinity or digits, a fraction, and an exponent when it is complete.    *)
(* FloatEnd is the index after that prefix (0 when there is none, and the  *)
(* result is NaN).                                                         *)
(***************************************************************************)
FloatParts(s) ==
    LET p0 == SkipSpace(s, 1)
        p1 == IF HasSign(s, p0) THEN p0 + 1 ELSE p0
        inf == InfinityAt(s, p1)
        ni == DigitRun(s, p1)
        p2 == p1 + ni
        dot == p2 <= Len(s) /\ s[p2] = "."
        nf == IF dot THEN DigitRun(s, p2 + 1) ELSE 0
        p3 == IF dot /\ (ni > 0 \/ nf > 0) THEN p2 + 1 + nf ELSE p2
        hasE == p3 <= Len(s) /\ s[p3] \in {"e", "E"}
        p4 == IF hasE /\ HasSign(s, p3 + 1) THEN p3 + 2 ELSE p3 + 1
        ne == IF hasE THEN DigitRun(s, p4) ELSE 0
        ex == IF ne > 0 THEN SignAt(s, p3 + 1) * DigitsValue(s, p4, ne) ELSE 0
    IN  IF inf
        THEN [ok |-> TRUE, inf |-> TRUE, sign |-> SignAt(s, p0), digits |-> <<>>,
              exp |-> 0, end |-> p1 + Len(InfinityWord)]
        ELSE [ok   |-> ni > 0 \/ (dot /\ nf > 0),
              inf  |-> FALSE,
              sign |-> SignAt(s, p0),
              digits |-> SubSeq(s, p1, p2 - 1) \o SubSeq(s, p2 + 1, p2 + nf),
              exp  |-> ex - nf,
              end  |-> IF ne > 0 THEN p4 + ne ELSE p3]

ParseFloat(s) ==
    LET r == FloatParts(s)
    IN  IF ~r.ok THEN NaN
        ELSE IF r.inf THEN Infinity(r.sign)
        ELSE DecimalToDouble(r.sign, r.digits, r.exp)

FloatEnd(s) == LET r == FloatParts(s) IN IF r.ok THEN r.end ELSE 0

(***************************************************************************)
(* The state.                                                              *)
(***************************************************************************)
VARIABLES
    inputExists,  \* whether docs/index.html exists
    env,          \* process.env: a function on the names that are set
    outputFile,   \* docs/aca_map.png
    pc,           \* the await the runner is suspended at
    config,       \* WIDTH, HEIGHT, SCALE once read
    browser,      \* the browser process and its default viewport
    closeCalls,   \* number of browser.close() calls made
    page,         \* the page under capture
    waited,       \* ms the pending bounded wait has lasted
    attempts,     \* number of times each bounded wait was started
    timedOut,     \* the bounded waits that hit their bound
    mapEl,        \* result of page.$(".leaflet-container")
    stdout,       \* lines written by console.log
    stderr,       \* lines written by console.error
    uncaught,     \* whether the runtime reported an unhandled rejection
    exitCode,     \* <<>> while running, <<status>> once the process has ended
    slept,        \* ms spent in sleep()
    done          \* the steps completed, in order

vars == <<inputExists, env, outputFile, pc, config, browser, closeCalls, page,
          waited, attempts, timedOut, mapEl, stdout, stderr, uncaught,
          exitCode, slept, done>>

EnvNames == {"PNG_W", "PNG_H", "PNG_SCALE"}

\* Values each environment variable takes in the model when it is set.
EnvStrings(name) ==
    CASE name = "PNG_W" ->
           { <<"8", "0", "0">>, <<"1", ".", "5">>, <<"1", "e", "3">>, <<>> }
      [] name = "PNG_H" -> { <<"6", "0", "0">>, <<"1", ".", "5">>, <<"\t", "1", "2">> }
      [] name = "PNG_SCALE" -> { <<"1">>, <<"1", ".", "5">> }

Environments ==
    UNION { {e \in [D -> UNION {EnvStrings(n) : n \in D}] :
               \A n \in D : e[n] \in EnvStrings(n)} : D \in SUBSET EnvNames }

Waits == {"goto", "waitSelector", "waitReady", "waitTiles"}

Unread == [unread |-> TRUE]
Absent == [kind |-> "absent"]
OldFile == [kind |-> "old"]

\* process.env[name] || dflt: an unset variable and the empty string are falsy.
EnvOr(name, dflt) ==
    IF name \in DOMAIN env /\ env[name] # <<>> THEN env[name] ELSE dflt

\* Mutant of ReadConfig: width and height are read from each other's variable.
ReadConfigSwapped ==
    [WIDTH  |-> ParseInt(EnvOr("PNG_H", DefaultW)),
     HEIGHT |-> ParseInt(EnvOr("PNG_W", DefaultH)),
     SCALE  |-> ParseFloat(EnvOr("PNG_SCALE", DefaultScale))]

\* Lines 23-25.
ReadConfig ==
    [WIDTH  |-> ParseInt(EnvOr("PNG_W", DefaultW)),
     HEIGHT |-> ParseInt(EnvOr("PNG_H", DefaultH)),
     SCALE  |-> ParseFloat(EnvOr("PNG_SCALE", DefaultScale))]

\* defaultViewport of puppeteer.launch, line 34.
DefaultViewport(c) ==
    [width |-> c.WIDTH, height |-> c.HEIGHT, deviceScaleFactor |-> c.SCALE]

NoPage ==
    [open |-> FALSE, loaded |-> FALSE, container |-> FALSE, acaDb |-> "undefined",
     labels |-> 0, tiles |-> 0, complete |-> 0, resizes |-> 0]

Init ==
    /\ inputExists \in BOOLEAN
    /\ env \in Environments
    /\ outputFile \in {Absent, OldFile}
    /\ pc = "start"
    /\ config = Unread
    /\ browser = [state |-> "none"]
    /\ closeCalls = 0
    /\ page = NoPage
    /\ waited = 0
    /\ attempts = [w \in Waits |-> 0]
    /\ timedOut = {}
    /\ mapEl = "unset"
    /\ stdout = <<>>
    /\ stderr = <<>>
    /\ uncaught = FALSE
    /\ exitCode = <<>>
    /\ slept = 0
    /\ done = <<>>


(***************************************************************************)
(* Ways the process ends other than by returning.                          *)
(***************************************************************************)
\* process.exit(code): the process ends at once; nothing after it runs.
ProcessExit(code) ==
    /\ exitCode' = <<code>>
    /\ pc' = "exited"

\* Mutant of UnhandledRejection: the rejection is only warned about and the
\* process ends normally.
UnhandledRejectionWarnOnly ==
    /\ uncaught' = TRUE
    /\ exitCode' = <<0>>
    /\ pc' = "exited"

\* The async function rejects and nothing handles it (there is no .catch on
\* the call of line 81): the runtime reports it and ends with status 1.
UnhandledRejection ==
    /\ uncaught' = TRUE
    /\ exitCode' = <<1>>
    /\ pc' = "exited"

\* Mutant of Catch: the handler exits without the diagnostic.
CatchSilent(e) ==
    /\ stderr' = stderr
    /\ ProcessExit(1)
    /\ UNCHANGED <<closeCalls, browser>>

\* The catch block, lines 75-77.  process.exit(1) ends the process inside
\* it, so the finally block of lines 78-80 is never entered on this path.
Catch(e) ==
    /\ stderr' = Append(stderr, <<"Screenshot failed:", e>>)
    /\ ProcessExit(1)
    /\ UNCHANGED <<closeCalls, browser>>

(***************************************************************************)
(* Lines 13-20: the input is missing.                                      *)
(***************************************************************************)
\* Mutant of MissingInput: the diagnostic is printed but the run goes on.
MissingInputNoExit ==
    /\ stderr' = Append(stderr, <<"Missing docs/index.html. Run generate_map.py first.">>)
    /\ config' = ReadConfig
    /\ pc' = "launch"
    /\ done' = Append(done, "config")
    /\ UNCHANGED exitCode

MissingInput ==
    /\ stderr' = Append(stderr, <<"Missing docs/index.html. Run generate_map.py first.">>)
    /\ ProcessExit(1)
    /\ UNCHANGED <<config, done>>

StartMissing ==
    /\ pc = "start"
    /\ ~inputExists
    /\ MissingInput
    /\ UNCHANGED <<inputExists, env, outputFile, browser, closeCalls, page, waited,
                   attempts, timedOut, mapEl, stdout, uncaught, slept>>

(***************************************************************************)
(* Lines 13-35: the input exists; the configuration is read and            *)
(* puppeteer.launch is called.                                             *)
(***************************************************************************)
StartLaunch ==
    /\ pc = "start"
    /\ inputExists
    /\ config' = ReadConfig
    /\ pc' = "launch"
    /\ done' = Append(done, "config")
    /\ UNCHANGED <<inputExists, env, outputFile, browser, closeCalls, page, waited,
                   attempts, timedOut, mapEl, stdout, stderr, uncaught, exitCode,
                   slept>>

\* Lines 27-38: launch resolves, the try block is entered, newPage is called.
LaunchResolve ==
    /\ pc = "launch"
    /\ browser' = [state |-> "running", viewport |-> DefaultViewport(config)]
    /\ pc' = "newPage"
    /\ done' = Append(done, "launch")
    /\ UNCHANGED <<inputExists, env, outputFile, config, closeCalls, page, waited,
                   attempts, timedOut, mapEl, stdout, stderr, uncaught, exitCode,
                   slept>>

\* Line 27 rejects: the await is outside the try block of line 37.
LaunchReject ==
    /\ pc = "launch"
    /\ UnhandledRejection
    /\ UNCHANGED <<inputExists, env, outputFile, config, browser, closeCalls, page,
                   waited, attempts, timedOut, mapEl, stdout, stderr, slept, done>>

(***************************************************************************)
(* The bounded waits, lines 41-60.                                         *)
(***************************************************************************)
TimeoutOf(w) ==
    CASE w = "goto" -> GotoTimeout
      [] w = "waitSelector" -> SelectorTimeout
      [] w = "waitReady" -> ReadyTimeout
      [] w = "waitTiles" -> TilesTimeout

\* Line 41, waitUntil: "load".
LoadFired(pg) == pg.loaded
\* Line 44.
SelectorPresent(pg) == pg.container
\* Lines 48-51.
ReadyPredicate(pg) == pg.acaDb = "latest" /\ pg.labels > 0
\* Lines 57-58: every() of no tile at all is true.
TilesPredicate(pg) == pg.complete = pg.tiles

ConditionOf(w, pg) ==
    CASE w = "goto" -> LoadFired(pg)
      [] w = "waitSelector" -> SelectorPresent(pg)
      [] w = "waitReady" -> ReadyPredicate(pg)
      [] w = "waitTiles" -> TilesPredicate(pg)

\* Mutant of AfterWait: the tile wait is left out of the sequence.
AfterWaitSkipTiles(w) ==
    CASE w = "goto" -> "waitSelector"
      [] w = "waitSelector" -> "waitReady"
      [] w = "waitReady" -> "sleep600"
      [] w = "waitTiles" -> "sleep600"

\* The await entered once wait w has resolved.
AfterWait(w) ==
    CASE w = "goto" -> "waitSelector"
      [] w = "waitSelector" -> "waitReady"
      [] w = "waitReady" -> "waitTiles"
      [] w = "waitTiles" -> "sleep600"

\* Entering await nxt: a bounded wait is started once, with a fresh timer.
Enter(nxt) ==
    /\ pc' = nxt
    /\ waited' = 0
    /\ attempts' = IF nxt \in Waits THEN [attempts EXCEPT ![nxt] = @ + 1] ELSE attempts

\* Lines 38-41: the page opens and page.goto is called.
NewPageResolve ==
    /\ pc = "newPage"
    /\ page' = [NoPage EXCEPT !.open = TRUE]
    /\ Enter("goto")
    /\ done' = Append(done, "newPage")
    /\ UNCHANGED <<inputExists, env, outputFile, config, browser, closeCalls,
                   timedOut, mapEl, stdout, stderr, uncaught, exitCode, slept>>

\* A bounded wait resolves: its condition holds before its bound.
WaitResolve(w) ==
    /\ pc = w
    /\ waited < TimeoutOf(w)
    /\ ConditionOf(w, page)
    /\ Enter(AfterWait(w))
    /\ done' = Append(done, w)
    /\ UNCHANGED <<inputExists, env, outputFile, config, browser, closeCalls, page,
                   timedOut, mapEl, stdout, stderr, uncaught, exitCode, slept>>

\* Mutant of OnTimeout: a timeout of the tile wait is swallowed and the run
\* goes on as if the wait had resolved.
OnTimeoutBestEffort(w) ==
    IF w = "waitTiles"
    THEN /\ Enter(AfterWait(w))
         /\ done' = Append(done, w)
         /\ UNCHANGED <<stderr, exitCode, closeCalls, browser, outputFile, stdout,
                        slept, mapEl>>
    ELSE /\ Catch(<<"TimeoutError", w>>)
         /\ UNCHANGED <<waited, attempts, done, outputFile, stdout, slept, mapEl>>

\* What the runner does when wait w hits its bound: the TimeoutError is thrown
\* inside the try block.
OnTimeout(w) ==
    /\ Catch(<<"TimeoutError", w>>)
    /\ UNCHANGED <<waited, attempts, done, outputFile, stdout, slept, mapEl>>

WaitTimeout(w) ==
    /\ pc = w
    /\ waited >= TimeoutOf(w)
    /\ timedOut' = timedOut \cup {w}
    /\ OnTimeout(w)
    /\ UNCHANGED <<inputExists, env, config, page, uncaught>>

\* Time passes while a bounded wait is pending.
Tick ==
    /\ pc \in Waits
    /\ waited < TimeoutOf(pc)
    /\ waited' = waited + TickMs
    /\ UNCHANGED <<inputExists, env, outputFile, pc, config, browser, closeCalls,
                   page, attempts, timedOut, mapEl, stdout, stderr, uncaught,
                   exitCode, slept, done>>

(***************************************************************************)
(* Lines 62-67: settle, resize event, settle.                              *)
(***************************************************************************)
\* sleep(600) is over and page.evaluate is called.
Sleep600 ==
    /\ pc = "sleep600"
    /\ slept' = slept + SettleMs
    /\ Enter("evaluate")
    /\ done' = Append(done, "sleep600")
    /\ UNCHANGED <<inputExists, env, outputFile, config, browser, closeCalls, page,
                   timedOut, mapEl, stdout, stderr, uncaught, exitCode>>

\* The resize event was dispatched in the page; sleep(100) starts.
EvaluateResolve ==
    /\ pc = "evaluate"
    /\ page' = [page EXCEPT !.resizes = @ + 1]
    /\ Enter("sleep100")
    /\ done' = Append(done, "evaluate")
    /\ UNCHANGED <<inputExists, env, outputFile, config, browser, closeCalls,
                   timedOut, mapEl, stdout, stderr, uncaught, exitCode, slept>>

\* sleep(100) is over and page.$ is called.
Sleep100 ==
    /\ pc = "sleep100"
    /\ slept' = slept + ResizeSettleMs
    /\ Enter("lookup")
    /\ done' = Append(done, "sleep100")
    /\ UNCHANGED <<inputExists, env, outputFile, config, browser, closeCalls, page,
                   timedOut, mapEl, stdout, stderr, uncaught, exitCode>>

(***************************************************************************)
(* Lines 69-72: the element is looked up again.                            *)
(***************************************************************************)
\* page.$ resolves to a handle and mapEl.screenshot is called.
LookupFound ==
    /\ pc = "lookup"
    /\ page.container
    /\ mapEl' = "handle"
    /\ Enter("screenshot")
    /\ done' = Append(done, "lookup")
    /\ UNCHANGED <<inputExists, env, outputFile, config, browser, closeCalls, page,
                   timedOut, stdout, stderr, uncaught, exitCode, slept>>

\* Mutant of OnNull: the null check is missing and the screenshot is attempted.
OnNullIgnored ==
    /\ Enter("screenshot")
    /\ done' = Append(done, "lookup")
    /\ UNCHANGED <<stderr, exitCode, closeCalls, browser, outputFile, stdout>>

\* What the runner does with a null mapEl, line 70.
OnNull ==
    /\ Catch(<<"Error", "Leaflet map element not found.">>)
    /\ UNCHANGED <<waited, attempts, done, outputFile, stdout>>

\* page.$ resolves to null.
LookupNull ==
    /\ pc = "lookup"
    /\ ~page.container
    /\ mapEl' = "null"
    /\ OnNull
    /\ UNCHANGED <<inputExists, env, config, page, timedOut, uncaught, slept>>

(***************************************************************************)
(* Lines 72-79: the screenshot is written, the success line is logged, the *)
(* finally block is entered and browser.close is called.                   *)
(***************************************************************************)
\* The file mapEl.screenshot({ path: output }) leaves at the output path: a
\* PNG of the element behind the handle.  Its pixels are the browser's; the
\* script computes no size.
ElementShot(handle) == [kind |-> "png", of |-> handle]

\* Mutant of ScreenshotResolve: the success line is not logged.
ScreenshotNoLog ==
    /\ pc = "screenshot"
    /\ page.container
    /\ outputFile' = ElementShot(mapEl)
    /\ closeCalls' = closeCalls + 1
    /\ Enter("close")
    /\ done' = Append(done, "screenshot")
    /\ UNCHANGED <<inputExists, env, config, browser, page, timedOut, mapEl, stdout,
                   stderr, uncaught, exitCode, slept>>

ScreenshotResolve ==
    /\ pc = "screenshot"
    /\ page.container
    /\ outputFile' = ElementShot(mapEl)
    /\ stdout' = Append(stdout, <<"Wrote", "docs/aca_map.png">>)
    /\ closeCalls' = closeCalls + 1
    /\ Enter("close")
    /\ done' = Append(done, "screenshot")
    /\ UNCHANGED <<inputExists, env, config, browser, page, timedOut, mapEl, stderr,
                   uncaught, exitCode, slept>>

\* An awaited call of the try block rejects for a reason other than a timeout
\* (the page crashed, the connection dropped, the element was detached).
Reject ==
    /\ pc \in {"newPage", "goto", "waitSelector", "waitReady", "waitTiles",
               "evaluate", "lookup", "screenshot"}
    /\ Catch(<<"Error", pc>>)
    /\ UNCHANGED <<inputExists, env, outputFile, config, page, waited, attempts,
                   timedOut, mapEl, stdout, uncaught, slept, done>>

(***************************************************************************)
(* Lines 78-81: browser.close settles and the function returns.            *)
(***************************************************************************)
CloseResolve ==
    /\ pc = "close"
    /\ browser' = [browser EXCEPT !.state = "closed"]
    /\ pc' = "returned"
    /\ done' = Append(done, "close")
    /\ UNCHANGED <<inputExists, env, outputFile, config, closeCalls, page, waited,
                   attempts, timedOut, mapEl, stdout, stderr, uncaught, exitCode,
                   slept>>

\* browser.close rejects inside the finally block: the function rejects.
CloseReject ==
    /\ pc = "close"
    /\ UnhandledRejection
    /\ UNCHANGED <<inputExists, env, outputFile, config, browser, closeCalls, page,
                   waited, attempts, timedOut, mapEl, stdout, stderr, slept, done>>

\* The function has returned and nothing is pending: the process ends, status 0.
EventLoopEmpty ==
    /\ pc = "returned"
    /\ exitCode' = <<0>>
    /\ pc' = "exited"
    /\ UNCHANGED <<inputExists, env, outputFile, config, browser, closeCalls, page,
                   waited, attempts, timedOut, mapEl, stdout, stderr, uncaught,
                   slept, done>>

(***************************************************************************)
(* The page under capture, as the runner observes it (lines 41-69).        *)
(***************************************************************************)
PageAlive ==
    pc \in {"goto", "waitSelector", "waitReady", "waitTiles", "sleep600",
            "evaluate", "sleep100", "lookup", "screenshot"}

PageStep(pg) ==
    /\ PageAlive
    /\ page' = pg
    /\ UNCHANGED <<inputExists, env, outputFile, pc, config, browser, closeCalls,
                   waited, attempts, timedOut, mapEl, stdout, stderr, uncaught,
                   exitCode, slept, done>>

PageLoad == ~page.loaded /\ PageStep([page EXCEPT !.loaded = TRUE])
PageMount == ~page.container /\ PageStep([page EXCEPT !.container = TRUE])
PageUnmount == page.container /\ PageStep([page EXCEPT !.container = FALSE])
PageDbCreated ==
    page.acaDb = "undefined" /\ PageStep([page EXCEPT !.acaDb = "noLatest"])
PageDbSnapshot ==
    page.acaDb = "noLatest" /\ PageStep([page EXCEPT !.acaDb = "latest"])
PageLabel == page.labels < MaxLabels /\ PageStep([page EXCEPT !.labels = @ + 1])
PageTileAdded == page.tiles < MaxTiles /\ PageStep([page EXCEPT !.tiles = @ + 1])
PageTileComplete ==
    page.complete < page.tiles /\ PageStep([page EXCEPT !.complete = @ + 1])

Next ==
    \/ StartMissing
    \/ StartLaunch
    \/ LaunchResolve
    \/ LaunchReject
    \/ NewPageResolve
    \/ \E w \in Waits : WaitResolve(w)
    \/ \E w \in Waits : WaitTimeout(w)
    \/ Tick
    \/ Sleep600
    \/ EvaluateResolve
    \/ Sleep100
    \/ LookupFound
    \/ LookupNull
    \/ ScreenshotResolve
    \/ Reject
    \/ CloseResolve
    \/ CloseReject
    \/ EventLoopEmpty
    \/ PageLoad
    \/ PageMount
    \/ PageUnmount
    \/ PageDbCreated
    \/ PageDbSnapshot
    \/ PageLabel
    \/ PageTileAdded
    \/ PageTileComplete

Spec == Init /\ [][Next]_vars

\* The pending browser.close() settles, and a process with nothing left to
\* run ends.
CloseSettles == CloseResolve \/ CloseReject
FairSpec == Spec /\ WF_vars(CloseSettles) /\ WF_vars(EventLoopEmpty)

(***************************************************************************)
(* Vocabulary of the properties.                                           *)
(***************************************************************************)
Range(s) == {s[i] : i \in DOMAIN s}

Order ==
    <<"config", "launch", "newPage", "goto", "waitSelector", "waitReady",
      "waitTiles", "sleep600", "evaluate", "sleep100", "lookup", "screenshot",
      "close">>

IsPrefix(s, u) == Len(s) <= Len(u) /\ \A i \in 1..Len(s) : s[i] = u[i]

Exited == pc = "exited"
Launched == browser.state # "none"
Written == outputFile.kind = "png"
SuccessLine == <<"Wrote", "docs/aca_map.png">>
MissingLine == <<"Missing docs/index.html. Run generate_map.py first.">>
Readiness == {"goto", "waitSelector", "waitReady", "waitTiles", "lookup"}

\* A string of decimal digits only, and the number it writes.
IsDigitString(s) == Len(s) > 0 /\ \A i \in 1..Len(s) : s[i] \in Digits
\* A decimal numeral (digits, fraction, exponent) up to the end of the
\* string, after white space if any.
IsNumericString(s) ==
    Len(s) > 0 /\ FloatEnd(s) = Len(s) + 1 /\ ~FloatParts(s).inf
NumericValue(s) == ParseFloat(s)
IsSet(name) == name \in DOMAIN env

(***************************************************************************)
(* C1.  Once the browser is launched, browser.close() is invoked exactly   *)
(* once before the process ends, on the success path and on every failure  *)
(* path of the try block.                                                  *)
(***************************************************************************)
C1_ClosedOnEveryExit == (Exited /\ Launched) => closeCalls = 1

(***************************************************************************)
(* C2, as stated.  If the input exists and navigation, the three readiness *)
(* waits, the tile wait, the re-lookup and the screenshot succeeded, the   *)
(* run ends with status 0, the screenshot written and the success line     *)
(* emitted.                                                                *)
(***************************************************************************)
ScreenshotSucceeded ==
    inputExists /\ Readiness \subseteq Range(done) /\ "screenshot" \in Range(done)

\* C2 as stated: a run whose listed steps all succeeded ends with status 0,
\* the file written and the success line emitted.
C2_Original ==
    (Exited /\ ScreenshotSucceeded) =>
        exitCode = <<0>> /\ Written /\ stdout = <<SuccessLine>>

(***************************************************************************)
(* C2, amended.  If moreover browser.close() resolves, the run ends with   *)
(* status 0, the screenshot written and the success line emitted.  After a *)
(* successful screenshot the run always ends, and when it ends otherwise   *)
(* than with status 0 it is because browser.close() rejected.              *)
(***************************************************************************)
SuccessOutcome ==
    ScreenshotSucceeded =>
        /\ outputFile = ElementShot("handle")
        /\ stdout = <<SuccessLine>>
        /\ (Exited /\ "close" \in Range(done)) => exitCode = <<0>>
        /\ (Exited /\ "close" \notin Range(done)) => (exitCode = <<1>> /\ uncaught)

\* C2 amended: the success outcome holds throughout, and a run whose
\* screenshot succeeded eventually ends.
C2_SuccessExitsZero == []SuccessOutcome /\ (ScreenshotSucceeded ~> Exited)

C2_Witness == Exited /\ ScreenshotSucceeded /\ exitCode = <<0>>

(***************************************************************************)
(* C3.  If docs/index.html does not exist the run ends with status 1       *)
(* without launching a browser, without reading the configuration and      *)
(* without creating or modifying the output file.                          *)
(***************************************************************************)
C3_MissingInput ==
    ~inputExists =>
        /\ pc \in {"start", "exited"}
        /\ Exited => exitCode = <<1>>
        /\ ~Launched
        /\ config = Unread
        /\ ~Written
        /\ done = <<>>

C3_Witness == ~inputExists /\ Exited /\ outputFile = OldFile

(***************************************************************************)
(* C4.  When a bounded wait (navigation, map container, content ready,     *)
(* tiles) hits its bound the run ends with status 1 and the output file is *)
(* as it was; no wait is started a second time.                            *)
(***************************************************************************)
C4_TimeoutIsFatal ==
    /\ \A w \in Waits : attempts[w] <= 1
    /\ \A w \in timedOut :
          /\ Exited
          /\ exitCode = <<1>>
          /\ ~Written
          /\ attempts[w] = 1

C4_Witness ==
    /\ "waitTiles" \in timedOut
    /\ Exited
    /\ outputFile = OldFile
    /\ waited >= TilesTimeout

(***************************************************************************)
(* C5, as stated.  Every failure of steps 1-10, the missing input and a    *)
(* failure of the browser launch included, reaches the top-level handler,  *)
(* which emits the 'Screenshot failed' diagnostic and ends the process     *)
(* with a non-zero status.                                                 *)
(***************************************************************************)
HandlerRan ==
    /\ Len(stderr) = 1
    /\ stderr[1][1] = "Screenshot failed:"
    /\ exitCode = <<1>>
    /\ ~uncaught

FailedBeforeCapture == Exited /\ "screenshot" \notin Range(done)

\* C5 as stated: every failure before the capture went through the handler.
C5_Original == FailedBeforeCapture => HandlerRan

(***************************************************************************)
(* C5, amended.  Every failure of steps 3-10 (page open, navigation, the   *)
(* waits, resize dispatch, re-lookup, screenshot) reaches the handler,     *)
(* which emits 'Screenshot failed' with the error and ends the process     *)
(* with status 1.  A missing input ends the process with status 1 and its  *)
(* own diagnostic, and a failed launch is outside the try block: the       *)
(* runtime ends the process with status 1 and the handler does not run.    *)
(***************************************************************************)
C5_FailuresInTryReachHandler ==
    /\ (FailedBeforeCapture /\ Launched) => (HandlerRan /\ stdout = <<>>)
    /\ (FailedBeforeCapture /\ ~inputExists) =>
          (stderr = <<MissingLine>> /\ exitCode = <<1>> /\ ~uncaught)
    /\ (FailedBeforeCapture /\ inputExists /\ ~Launched) =>
          (stderr = <<>> /\ exitCode = <<1>> /\ uncaught)

C5_Witness ==
    /\ FailedBeforeCapture
    /\ Launched
    /\ stderr = << <<"Screenshot failed:", <<"Error", "evaluate">> >> >>

(***************************************************************************)
(* C6, as stated.  The viewport is (PNG_W, PNG_H, PNG_SCALE) when the      *)
(* variables are set to numeric strings and (2400, 1600, 2) for each one   *)
(* unset, from launch on.                                                  *)
(***************************************************************************)
AsStated(name, dflt, actual) ==
    /\ ~IsSet(name) => actual = dflt
    /\ (IsSet(name) /\ IsNumericString(env[name])) => actual = NumericValue(env[name])

(***************************************************************************)
AsDigits(name, dflt, actual) ==
    /\ ~IsSet(name) => actual = dflt
    /\ (IsSet(name) /\ IsDigitString(env[name])) =>
          actual = IntNum(DigitsValue(env[name], 1, Len(env[name])))
    /\ (IsSet(name) /\ env[name] \in {<<"1", ".", "5">>, <<"1", "e", "3">>}) =>
          actual = IntNum(1)

Example800x600 ==
    env = [n \in EnvNames |->
              CASE n = "PNG_W" -> <<"8", "0", "0">>
                [] n = "PNG_H" -> <<"6", "0", "0">>
                [] n = "PNG_SCALE" -> <<"1">>]

Viewport(w, h, scale) ==
    [width |-> IntNum(w), height |-> IntNum(h), deviceScaleFactor |-> IntNum(scale)]

(***************************************************************************)
C7_FixedOrder ==
    /\ IsPrefix(done, Order)
    /\ Written =>
          /\ Readiness \subseteq Range(done)
          /\ timedOut = {}
          /\ mapEl = "handle"
          /\ slept = SettleMs + ResizeSettleMs
          /\ page.resizes = 1

C7_Witness == Written /\ done = Order

(***************************************************************************)
(* C8.  A timeout of the tile wait is treated like its success: the run    *)
(* does not halt but goes on to the settle delay, the resize dispatch, the *)
(* re-lookup and the screenshot.                                           *)
(***************************************************************************)
C8_TileTimeoutBestEffort ==
    "waitTiles" \in timedOut =>
        /\ "waitTiles" \in Range(done)
        /\ <<"Screenshot failed:", <<"TimeoutError", "waitTiles">> >> \notin Range(stderr)

(***************************************************************************)
(* C9.  If the map container is absent at the re-lookup although it was    *)
(* present at the map-container wait, the run fails with the element-not-  *)
(* found error: no screenshot, no output file, no success line, status 1.  *)
(***************************************************************************)
C9_ElementGone ==
    mapEl = "null" =>
        /\ Exited
        /\ exitCode = <<1>>
        /\ stderr = << <<"Screenshot failed:", <<"Error", "Leaflet map element not found.">> >> >>
        /\ "screenshot" \notin Range(done)
        /\ ~Written
        /\ stdout = <<>>

C9_Witness ==
    /\ mapEl = "null"
    /\ "waitSelector" \in Range(done)
    /\ outputFile = Absent

(***************************************************************************)
(* C10.  The success line and an error line of the script are never both   *)
(* emitted; the success line is emitted only once the screenshot is        *)
(* written; status 0 only after the screenshot was written and             *)
(* browser.close() completed; a browser.close() that fails after a         *)
(* successful screenshot does not give status 0.                           *)
(***************************************************************************)
C10_Outcome ==
    /\ ~(stdout # <<>> /\ stderr # <<>>)
    /\ stdout # <<>> => (Written /\ stdout = <<SuccessLine>>)
    /\ exitCode = <<0>> => (Written /\ browser.state = "closed" /\ "close" \in Range(done))
    /\ (Exited /\ "screenshot" \in Range(done) /\ browser.state # "closed") =>
          exitCode = <<1>>

C10_Witness ==
    /\ Exited
    /\ "screenshot" \in Range(done)
    /\ browser.state = "running"
    /\ closeCalls = 1
    /\ stdout = <<SuccessLine>>
    /\ exitCode = <<1>>

====
